---- MODULE Spec2Model ----
(***************************************************************************)
(* The Sudoku engine of src/sudoku_solver_frontend/src/pages/Regular.jsx:  *)
(* cloneGrid, isValidPlacement, findEmpty, shuffledDigits, solveSudoku,    *)
(* generateSudoku and gridHasConflicts.                                    *)
(*                                                                         *)
(* A grid is a JavaScript array of nine row arrays.  The rows live in      *)
(* `heap` (address -> row) and a grid is the tuple of its nine row         *)
(* addresses, so that sharing of row storage is visible.  Rows, columns    *)
(* and array indices are 0-based as in the source.                         *)
(***************************************************************************)
EXTENDS Integers, FiniteSets, Sequences, TLC

VARIABLES
    heap,       \* row storage: address -> row (a function 0..8 -> cell value)
    grid,       \* solveSudoku: the caller's grid (nine row addresses)
    g,          \* solveSudoku: the private copy `g` (nine row addresses)
    stack,      \* the call stack of backtrack() / fill(): one frame per active call
    ret,        \* the value returned by the backtrack() / fill() call that just ended
    pc,         \* position in the running function
    solved,     \* solveSudoku: the `solved` field of the returned record
    calls,      \* how many times solveSudoku has been called in this run
    first,      \* the grid (as a matrix) returned by the first solveSudoku call
    rng,        \* state of the random source behind Math.random()
    givens,     \* generateSudoku: the `givens` option
    solution,   \* generateSudoku: the grid `solution` (nine row addresses)
    puzzle,     \* generateSudoku: the grid `puzzle` (nine row addresses)
    indices,    \* generateSudoku: the shuffled array of the 81 cell indices
    k,          \* generateSudoku: the counter of the removal loop
    args,       \* isValidPlacement called on its own: <<row, col, val>>
    outcome     \* isValidPlacement called on its own: "true", "false" or "TypeError"

vars == <<heap, grid, g, stack, ret, pc, solved, calls, first,
          rng, givens, solution, puzzle, indices, k, args, outcome>>

solveVars == <<grid, g, solved, calls, first>>
genVars   == <<rng, givens, solution, puzzle, indices, k>>
placeVars == <<args, outcome>>

(***************************************************************************)
(* Grid primitives                                                         *)
(***************************************************************************)

\* const DIGITS = [1, 2, 3, 4, 5, 6, 7, 8, 9] as a 0-based array
DIGITS == [i \in 0..8 |-> i + 1]

\* the value findEmpty returns when the grid is full
null == <<>>

\* the matrix (row -> col -> value) a grid denotes in heap h
Deref(hp, rows) == [rw \in 0..8 |-> hp[rows[rw]]]

\* createEmptyGrid() as a matrix
EmptyMatrix == [r \in 0..8 |-> [c \in 0..8 |-> 0]]

\* the next free address of heap h (addresses are 0, 1, 2, ...)
Fresh(h) == Cardinality(DOMAIN h)

\* createEmptyGrid(): nine fresh rows of zeros
createEmptyGrid(h) ==
    LET base == Fresh(h) IN
    [grid |-> [r \in 0..8 |-> base + r],
     heap |-> [a \in 0..(base + 8) |-> IF a < base THEN h[a] ELSE [c \in 0..8 |-> 0]]]

\* a faulty cloneGrid: grid.slice(), a new outer array over the same rows
cloneGridShallow(h, refs) == [grid |-> refs, heap |-> h]

\* cloneGrid(grid): grid.map((r) => r.slice()), nine fresh rows with the same content
cloneGrid(h, refs) ==
    LET base == Fresh(h) IN
    [grid |-> [r \in 0..8 |-> base + r],
     heap |-> [a \in 0..(base + 8) |-> IF a < base THEN h[a] ELSE h[refs[a - base]]]]

\* the matrix m after the assignment  m[r][c] = v
SetCell(m, r, c, v) ==
    [rr \in 0..8 |-> [cc \in 0..8 |-> IF rr = r /\ cc = c THEN v ELSE m[rr][cc]]]

\* the assignment  refs[r][c] = v  on heap h
Store(h, refs, r, c, v) ==
    [a \in DOMAIN h |->
        IF a = refs[r] THEN [cc \in 0..8 |-> IF cc = c THEN v ELSE h[a][cc]] ELSE h[a]]

(***************************************************************************)
(* isValidPlacement                                                        *)
(***************************************************************************)

\* m[r][c] === val in JavaScript, for a row r that exists: a column outside
\* 0..8 reads undefined, which is never === a number
CellIs(m, r, c, val) == c \in 0..8 /\ m[r][c] = val

\* the first loop (lines 19-22) from iteration i on: "TypeError" when
\* grid[row] is undefined and is indexed, "false" on a match, else "next"
RECURSIVE RowColScan(_, _, _, _, _)
RowColScan(m, row, col, val, i) ==
    IF i = 9 THEN "next"
    ELSE IF i # col /\ row \notin 0..8 THEN "TypeError"
    ELSE IF i # col /\ CellIs(m, row, i, val) THEN "false"
    ELSE IF i # row /\ CellIs(m, i, col, val) THEN "false"
    ELSE RowColScan(m, row, col, val, i + 1)

\* the box loop (lines 23-29); only reached with row in 0..8
BoxScan(m, row, col, val) ==
    LET br == (row \div 3) * 3
        bc == (col \div 3) * 3
    IN  IF \E r \in br..(br + 2), c \in bc..(bc + 2) :
              (r # row \/ c # col) /\ CellIs(m, r, c, val)
        THEN "false" ELSE "true"

\* a faulty isValidPlacement: the row scan does not skip the cell itself
isValidPlacementSelf(m, row, col, val) ==
    IF row \in 0..8 /\ CellIs(m, row, col, val) THEN "false"
    ELSE LET scan == RowColScan(m, row, col, val, 0) IN
         IF scan # "next" THEN scan ELSE BoxScan(m, row, col, val)

\* a faulty first loop: the column test of line 21 is missing
RECURSIVE RowScanOnly(_, _, _, _, _)
RowScanOnly(m, row, col, val, i) ==
    IF i = 9 THEN "next"
    ELSE IF i # col /\ row \notin 0..8 THEN "TypeError"
    ELSE IF i # col /\ CellIs(m, row, i, val) THEN "false"
    ELSE RowScanOnly(m, row, col, val, i + 1)

\* a faulty isValidPlacement: the column is never compared
isValidPlacementNoCol(m, row, col, val) ==
    LET scan == RowScanOnly(m, row, col, val, 0) IN
    IF scan # "next" THEN scan ELSE BoxScan(m, row, col, val)

\* a faulty first loop: lines 20 and 21 in the opposite order
RECURSIVE ColRowScan(_, _, _, _, _)
ColRowScan(m, row, col, val, i) ==
    IF i = 9 THEN "next"
    ELSE IF i # row /\ CellIs(m, i, col, val) THEN "false"
    ELSE IF i # col /\ row \notin 0..8 THEN "TypeError"
    ELSE IF i # col /\ CellIs(m, row, i, val) THEN "false"
    ELSE ColRowScan(m, row, col, val, i + 1)

\* a faulty isValidPlacement: the column is compared before the row
isValidPlacementColFirst(m, row, col, val) ==
    LET scan == ColRowScan(m, row, col, val, 0) IN
    IF scan # "next" THEN scan ELSE BoxScan(m, row, col, val)

\* isValidPlacement(grid, row, col, val): the outcome of the call
isValidPlacement(m, row, col, val) ==
    LET scan == RowColScan(m, row, col, val, 0) IN
    IF scan # "next" THEN scan ELSE BoxScan(m, row, col, val)

\* a faulty findEmpty: the column loop stops one short (c < 8)
findEmptyShort(m) ==
    LET empties == {i \in 0..80 : i % 9 < 8 /\ m[i \div 9][i % 9] = 0} IN
    IF empties = {} THEN null
    ELSE LET i == CHOOSE x \in empties : \A y \in empties : x <= y
         IN  <<i \div 9, i % 9>>

\* findEmpty(grid): the first empty cell in row-major order, or null
findEmpty(m) ==
    LET empties == {i \in 0..80 : m[i \div 9][i % 9] = 0} IN
    IF empties = {} THEN null
    ELSE LET i == CHOOSE x \in empties : \A y \in empties : x <= y
         IN  <<i \div 9, i % 9>>

\* gridHasConflicts(grid): some filled cell fails isValidPlacement on a copy
\* of the grid in which that cell is cleared
gridHasConflicts(m) ==
    \E r \in 0..8, c \in 0..8 :
        /\ m[r][c] # 0
        /\ isValidPlacement(SetCell(m, r, c, 0), r, c, m[r][c]) # "true"

(***************************************************************************)
(* Input grids.  Base is a solved grid; an input is Base with at most      *)
(* MaxHoles of the cells HoleCells emptied and at most one of the cells    *)
(* EditCells overwritten with a digit.                                     *)
(***************************************************************************)

MaxHoles == 4

BaseRows ==
    << <<5, 3, 4, 6, 7, 8, 9, 1, 2>>,
       <<6, 7, 2, 1, 9, 5, 3, 4, 8>>,
       <<1, 9, 8, 3, 4, 2, 5, 6, 7>>,
       <<8, 5, 9, 7, 6, 1, 4, 2, 3>>,
       <<4, 2, 6, 8, 5, 3, 7, 9, 1>>,
       <<7, 1, 3, 9, 2, 4, 8, 5, 6>>,
       <<9, 6, 1, 5, 3, 7, 2, 8, 4>>,
       <<2, 8, 7, 4, 1, 9, 6, 3, 5>>,
       <<3, 4, 5, 2, 8, 6, 1, 7, 9>> >>

Base == [r \in 0..8 |-> [c \in 0..8 |-> BaseRows[r + 1][c + 1]]]

HoleCells == {<<0, 0>>, <<0, 1>>, <<5, 2>>, <<0, 3>>, <<0, 4>>, <<3, 3>>, <<3, 4>>, <<8, 8>>}

EditCells == {<<0, 2>>, <<3, 3>>, <<8, 8>>}

NoEdit == <<>>

Edits == {NoEdit} \cup {<<cell, v>> : cell \in EditCells, v \in 1..9}

\* Base with the cells of H emptied and then the edit e applied
InputMatrix(H, e) ==
    [r \in 0..8 |-> [c \in 0..8 |->
        IF e # NoEdit /\ e[1] = <<r, c>> THEN e[2]
        ELSE IF <<r, c>> \in H THEN 0
        ELSE Base[r][c]]]

InputMatrices ==
    {InputMatrix(H, e) : H \in {X \in SUBSET HoleCells : Cardinality(X) <= MaxHoles},
                         e \in Edits}

(***************************************************************************)
(* solveSudoku                                                             *)
(***************************************************************************)

Top == stack[Len(stack)]

Pop == SubSeq(stack, 1, Len(stack) - 1)

\* the top frame with its loop advanced to the next candidate
NextCandidate == [stack EXCEPT ![Len(stack)].i = @ + 1]

\* the caller holds a grid; nothing has been called yet
Init ==
    /\ \E m \in InputMatrices :
          heap = [a \in 0..8 |-> m[a]]
    /\ grid = [r \in 0..8 |-> r]
    /\ g = <<>>
    /\ stack = <<>>
    /\ ret = FALSE
    /\ pc = "idle"
    /\ solved = FALSE
    /\ calls = 0
    /\ first = <<>>
    /\ rng = 0
    /\ givens = 0
    /\ solution = <<>>
    /\ puzzle = <<>>
    /\ indices = <<>>
    /\ k = 0
    /\ args = <<>>
    /\ outcome = ""

\* lines 51-52 and the call of backtrack() in line 67, on the grid `input`
solveCall(input) ==
    LET copy == cloneGrid(heap, input) IN
    /\ grid' = input
    /\ g' = copy.grid
    /\ heap' = copy.heap
    /\ stack' = <<>>
    /\ calls' = calls + 1
    /\ pc' = "enter"
    /\ UNCHANGED <<ret, solved>>

\* the caller calls solveSudoku(grid)
solveSudoku ==
    /\ pc = "idle"
    /\ solveCall(grid)
    /\ UNCHANGED <<first, genVars, placeVars>>

\* the caller calls solveSudoku on the grid the first call returned
solveAgain ==
    /\ pc = "done"
    /\ calls = 1
    /\ first' = Deref(heap, g)
    /\ solveCall(g)
    /\ UNCHANGED <<genVars, placeVars>>

\* lines 55-57: backtrack() is entered
backtrackEnter ==
    /\ pc = "enter"
    /\ LET pos == findEmpty(Deref(heap, g)) IN
       IF pos = null
       THEN /\ ret' = TRUE
            /\ pc' = "return"
            /\ UNCHANGED stack
       ELSE /\ stack' = Append(stack, [r |-> pos[1], c |-> pos[2], i |-> 0])
            /\ pc' = "loop"
            /\ UNCHANGED ret
    /\ UNCHANGED <<heap, solveVars, genVars, placeVars>>

\* lines 59-61: the next digit is placed and checked; a valid one recurses
backtrackPlace ==
    /\ pc = "loop"
    /\ Top.i < 9
    /\ LET val == DIGITS[Top.i] IN
       /\ heap' = Store(heap, g, Top.r, Top.c, val)
       /\ pc' = IF isValidPlacement(Deref(heap', g), Top.r, Top.c, val) = "true"
                THEN "enter" ELSE "undo"
    /\ UNCHANGED <<stack, ret, solveVars, genVars, placeVars>>

\* a faulty line 62: the cell is not reverted
backtrackUndoKeep ==
    /\ pc = "undo"
    /\ stack' = NextCandidate
    /\ pc' = "loop"
    /\ UNCHANGED <<heap, ret, solveVars, genVars, placeVars>>

\* line 62: the cell is reverted to 0 and the loop goes on
backtrackUndo ==
    /\ pc = "undo"
    /\ heap' = Store(heap, g, Top.r, Top.c, 0)
    /\ stack' = NextCandidate
    /\ pc' = "loop"
    /\ UNCHANGED <<ret, solveVars, genVars, placeVars>>

\* line 64: all nine digits failed, backtrack() returns false
backtrackFail ==
    /\ pc = "loop"
    /\ Top.i = 9
    /\ stack' = Pop
    /\ ret' = FALSE
    /\ pc' = "return"
    /\ UNCHANGED <<heap, solveVars, genVars, placeVars>>

\* line 61, after the recursive call: true is passed on, false reverts
backtrackReturn ==
    /\ pc = "return"
    /\ stack # <<>>
    /\ IF ret
       THEN /\ stack' = Pop
            /\ pc' = "return"
       ELSE /\ pc' = "undo"
            /\ UNCHANGED stack
    /\ UNCHANGED <<heap, ret, solveVars, genVars, placeVars>>

\* lines 67-68: the outermost backtrack() has returned
solveReturn ==
    /\ pc = "return"
    /\ stack = <<>>
    /\ solved' = ret
    /\ pc' = "done"
    /\ UNCHANGED <<heap, grid, g, calls, first, stack, ret, genVars, placeVars>>

Next ==
    \/ solveSudoku
    \/ solveAgain
    \/ backtrackEnter
    \/ backtrackPlace
    \/ backtrackUndo
    \/ backtrackFail
    \/ backtrackReturn
    \/ solveReturn

Spec == Init /\ [][Next]_vars

(***************************************************************************)
(* The rules of Sudoku, stated on matrices independently of the code       *)
(***************************************************************************)

Cell(x, i) == x[i \div 9][i % 9]

\* two different cells (as indices 0..80) in one row, one column or one box
IsPeer(i, j) ==
    /\ i # j
    /\ \/ i \div 9 = j \div 9
       \/ i % 9 = j % 9
       \/ (i \div 27 = j \div 27 /\ (i % 9) \div 3 = (j % 9) \div 3)

PeersOf == [i \in 0..80 |-> {j \in 0..80 : IsPeer(i, j)}]

PeerPairs == {p \in (0..80) \X (0..80) : p[1] < p[2] /\ IsPeer(p[1], p[2])}

\* no digit occurs twice in a row, a column or a box
NoDuplicates(x) == \A p \in PeerPairs : Cell(x, p[1]) = 0 \/ Cell(x, p[1]) # Cell(x, p[2])

HasEmpty(x) == \E i \in 0..80 : Cell(x, i) = 0

NumEmpty(x) == Cardinality({i \in 0..80 : Cell(x, i) = 0})

\* the digits that no peer of the empty cell h holds in x
Free(x, hole) == {w \in 1..9 : \A j \in PeersOf[hole] : Cell(x, j) # w}

Put(x, hole, v) == [i \in 0..8 |-> [j \in 0..8 |-> IF 9 * i + j = hole THEN v ELSE x[i][j]]]

\* the full grids that extend x by digits that no peer holds at the time
RECURSIVE Extensions(_)
ExtendAt(x, hole) == UNION {Extensions(Put(x, hole, v)) : v \in Free(x, hole)}

Extensions(x) ==
    IF ~HasEmpty(x) THEN {x}
    ELSE ExtendAt(x, CHOOSE i \in 0..80 : Cell(x, i) = 0)

\* the valid completions of x: full, no duplicates, agreeing with x on its digits
Completions(x) == {y \in Extensions(x) : NoDuplicates(y)}

(***************************************************************************)
(* Properties of solveSudoku                                               *)
(***************************************************************************)

Input  == Deref(heap, grid)
Result == Deref(heap, g)

\* C1: no step of solveSudoku changes a row of the caller's grid, and the
\* grid it returns (solved or not) shares no row with the caller's grid
SolveLeavesInputAlone ==
    [][/\ \A r \in 0..8 : heap'[grid[r]] = heap[grid[r]]
       /\ pc' = "done" => {g'[r] : r \in 0..8} \cap {grid'[r] : r \in 0..8} = {}]_vars

\* a failed search over at least two empty cells has returned
WitnessInputAlone ==
    pc = "done" /\ calls = 1 /\ ~solved /\ NumEmpty(Input) >= 2 /\ NoDuplicates(Input)

\* C2: on a grid with exactly one valid completion solve returns solved=true
\* and that completion
UniqueCompletionFound ==
    (pc = "done" /\ Cardinality(Completions(Input)) = 1)
        => (solved /\ Result \in Completions(Input))

WitnessUniqueCompletion ==
    /\ pc = "done" /\ calls = 1 /\ solved
    /\ NumEmpty(Input) >= 3
    /\ Cardinality(Completions(Input)) = 1

\* C3 as stated: on a grid with no valid completion solve returns solved=false
NoCompletionFails ==
    (pc = "done" /\ Completions(Input) = {}) => ~solved

\* C3 amended: on a grid with no valid completion and no repeated digit among
\* its givens solve returns solved=false
NoCompletionNoConflictFails ==
    (pc = "done" /\ Completions(Input) = {} /\ NoDuplicates(Input)) => ~solved

WitnessNoCompletion ==
    /\ pc = "done" /\ calls = 1 /\ ~solved
    /\ HasEmpty(Input) /\ NoDuplicates(Input)
    /\ Completions(Input) = {}

\* C4 as stated: a grid returned with solved=true is full and has no conflicts
SolvedHasNoConflicts ==
    (pc = "done" /\ solved)
        => (~HasEmpty(Result) /\ ~gridHasConflicts(Result) /\ NoDuplicates(Result))

\* C4 amended: when the input grid has no conflicts, a grid returned with
\* solved=true is full and has no conflicts
SolvedCleanInputHasNoConflicts ==
    (pc = "done" /\ solved /\ ~gridHasConflicts(Input))
        => (~HasEmpty(Result) /\ ~gridHasConflicts(Result) /\ NoDuplicates(Result))

WitnessSolvedClean ==
    /\ pc = "done" /\ calls = 1 /\ solved
    /\ ~gridHasConflicts(Input)
    /\ NumEmpty(Input) >= 4
    /\ ~gridHasConflicts(Result)

\* C9: solving the grid a solve returned returns that grid again
SolveIdempotent ==
    (pc = "done" /\ calls = 2) => Result = first

\* the second solve of a grid that a failed solve returned has ended
WitnessIdempotentFailed ==
    pc = "done" /\ calls = 2 /\ ~solved /\ HasEmpty(first) /\ Result = first

\* C10: a grid returned with solved=false equals the input cell for cell
FailedReturnsInput ==
    (pc = "done" /\ ~solved) => Result = Input

\* a search that placed digits and went at least two cells deep has failed
WitnessFailedReverted ==
    /\ pc = "done" /\ calls = 1 /\ ~solved
    /\ NumEmpty(Input) >= 3
    /\ LET pos == findEmpty(Input) IN
       \E v \in 1..9 : isValidPlacement(SetCell(Input, pos[1], pos[2], v), pos[1], pos[2], v) = "true"

(***************************************************************************)
(* isValidPlacement called on its own, with arguments inside and outside   *)
(* their ranges.  The grids are the empty grid with at most MaxPlaced of   *)
(* the cells PlaceCells filled, and the solved grid Base.                  *)
(***************************************************************************)

MaxPlaced == 3

\* how far outside 0..8 (row, col) and 1..9 (val) the arguments go
Beyond == 1

PlaceCells == {<<0, 0>>, <<0, 5>>, <<4, 0>>, <<1, 1>>, <<4, 4>>}

\* the empty grid with the cells of DOMAIN f filled as f says
PlacedMatrix(f) ==
    [r \in 0..8 |-> [c \in 0..8 |-> IF <<r, c>> \in DOMAIN f THEN f[<<r, c>>] ELSE 0]]

PlaceMatrices ==
    {Base} \cup
    UNION {{PlacedMatrix(f) : f \in [X -> 1..2]} :
              X \in {Y \in SUBSET PlaceCells : Cardinality(Y) <= MaxPlaced}}

PlaceInit ==
    /\ \E m \in PlaceMatrices :
          heap = [a \in 0..8 |-> m[a]]
    /\ grid = [r \in 0..8 |-> r]
    /\ g = <<>>
    /\ stack = <<>>
    /\ ret = FALSE
    /\ pc = "idle"
    /\ solved = FALSE
    /\ calls = 0
    /\ first = <<>>
    /\ rng = 0
    /\ givens = 0
    /\ solution = <<>>
    /\ puzzle = <<>>
    /\ indices = <<>>
    /\ k = 0
    /\ args = <<>>
    /\ outcome = ""

\* a caller calls isValidPlacement(grid, row, col, val)
placeCall ==
    /\ pc = "idle"
    /\ \E row \in (0 - Beyond)..(8 + Beyond),
          col \in (0 - Beyond)..(8 + Beyond),
          val \in (1 - Beyond)..(9 + Beyond) :
          /\ args' = <<row, col, val>>
          /\ outcome' = isValidPlacement(Deref(heap, grid), row, col, val)
    /\ pc' = "placed"
    /\ UNCHANGED <<heap, stack, ret, solveVars, genVars>>

PlaceNext == placeCall

PlaceSpec == PlaceInit /\ [][PlaceNext]_vars

InRange == args[1] \in 0..8 /\ args[2] \in 0..8 /\ args[3] \in 1..9

\* C7: for in-range arguments isValidPlacement is true exactly when no other
\* cell of the row, the column or the box holds val, whatever the cell
\* (row, col) itself holds
ValidIffNoPeerHolds ==
    (pc = "placed" /\ InRange) =>
        /\ (outcome = "true") <=>
               (\A j \in PeersOf[9 * args[1] + args[2]] : Cell(Input, j) # args[3])
        /\ outcome \in {"true", "false"}
        /\ \A w \in 0..9 :
               isValidPlacement(SetCell(Input, args[1], args[2], w),
                                args[1], args[2], args[3]) = outcome

\* the cell itself holds val and no peer does, and the call returned true
WitnessValidSelf ==
    /\ pc = "placed" /\ InRange
    /\ Input[args[1]][args[2]] = args[3]
    /\ outcome = "true"
    /\ \E j \in 0..80 : j # 9 * args[1] + args[2] /\ Cell(Input, j) = args[3]

\* C8 as stated: with an argument out of range the call fails, it returns no boolean
OutOfRangeFails ==
    (pc = "placed" /\ ~InRange) => outcome = "TypeError"

\* C8 amended: the call fails (TypeError) exactly when row is outside 0..8,
\* except that with col = 0 and grid[0][0] = val it returns false; with row in
\* 0..8 it returns a boolean also for col outside 0..8 or val outside 1..9
FailsIffRowOutOfRange ==
    pc = "placed" =>
        /\ (outcome = "TypeError") <=>
               /\ args[1] \notin 0..8
               /\ ~(args[2] = 0 /\ Input[0][0] = args[3])
        /\ (outcome # "TypeError") => outcome \in {"true", "false"}

\* row out of range, column 0, val not in grid[0][0]: the call failed
WitnessRowOutOfRange ==
    /\ pc = "placed"
    /\ args[1] \notin 0..8 /\ args[2] = 0 /\ args[3] \in 1..9
    /\ outcome = "TypeError"

(***************************************************************************)
(* generateSudoku                                                          *)
(*                                                                         *)
(* Math.random() is a stream of fractions rng/65537 produced from a start  *)
(* value; a run draws the start value from 0..NumSeeds-1.                  *)
(***************************************************************************)

NumSeeds == 5

\* the values passed as the `givens` option
GivensArgs == {-1, 5, 17, 30, 32, 81, 90}

\* the state of the random source after one more call of Math.random()
NextRand(x) == (x * 75 + 74) % 65537

\* Math.floor(Math.random() * n) for the call that leaves the source in state x
RandomBelow(x, n) == (x * n) \div 65537

Max(a, b) == IF a >= b THEN a ELSE b

Min(a, b) == IF a <= b THEN a ELSE b

\* the array arr with the elements at i and j exchanged
Swap(arr, i, j) ==
    [q \in DOMAIN arr |-> IF q = i THEN arr[j] ELSE IF q = j THEN arr[i] ELSE arr[q]]

\* lines 44-47: the shuffle loop from index i down to 1, from source state x
RECURSIVE ShuffleFrom(_, _, _)
ShuffleFrom(arr, i, x) ==
    IF i <= 0 THEN [arr |-> arr, rng |-> x]
    ELSE LET x1 == NextRand(x)
             j  == RandomBelow(x1, i + 1)
         IN  ShuffleFrom(Swap(arr, i, j), i - 1, x1)

\* shuffledDigits(): a shuffled copy of DIGITS and the state the source is left in
shuffledDigits(x) == ShuffleFrom(DIGITS, 8, x)

\* a faulty line 97: the lower limit is 16
keepLowFloor(n) == Max(16, Min(81, n))

\* line 97: keep = Math.max(17, Math.min(81, givens))
keep(n) == Max(17, Min(81, n))

\* line 98
toRemove(n) == 81 - keep(n)

GenInit ==
    /\ heap = <<>>
    /\ grid = <<>>
    /\ g = <<>>
    /\ stack = <<>>
    /\ ret = FALSE
    /\ pc = "idle"
    /\ solved = FALSE
    /\ calls = 0
    /\ first = <<>>
    /\ rng \in 0..(NumSeeds - 1)
    /\ givens = 0
    /\ solution = <<>>
    /\ puzzle = <<>>
    /\ indices = <<>>
    /\ k = 0
    /\ args = <<>>
    /\ outcome = ""

\* lines 71-72 and the call of fill() in line 87
generateSudoku ==
    /\ pc = "idle"
    /\ \E n \in GivensArgs : givens' = n
    /\ LET new == createEmptyGrid(heap) IN
       /\ solution' = new.grid
       /\ heap' = new.heap
    /\ stack' = <<>>
    /\ pc' = "fill_enter"
    /\ UNCHANGED <<ret, solveVars, rng, puzzle, indices, k, placeVars>>

\* lines 75-78: fill() is entered
fillEnter ==
    /\ pc = "fill_enter"
    /\ LET pos == findEmpty(Deref(heap, solution)) IN
       IF pos = null
       THEN /\ ret' = TRUE
            /\ pc' = "fill_return"
            /\ UNCHANGED <<stack, rng>>
       ELSE LET sh == shuffledDigits(rng) IN
            /\ stack' = Append(stack, [r |-> pos[1], c |-> pos[2], i |-> 0,
                                       candidates |-> sh.arr])
            /\ rng' = sh.rng
            /\ pc' = "fill_loop"
            /\ UNCHANGED ret
    /\ UNCHANGED <<heap, solveVars, givens, solution, puzzle, indices, k, placeVars>>

\* a faulty line 81: the candidate is not checked before the recursion
fillPlaceUnchecked ==
    /\ pc = "fill_loop"
    /\ Top.i < 9
    /\ heap' = Store(heap, solution, Top.r, Top.c, Top.candidates[Top.i])
    /\ pc' = "fill_enter"
    /\ UNCHANGED <<stack, ret, solveVars, genVars, placeVars>>

\* lines 79-81: the next candidate is placed and checked; a valid one recurses
fillPlace ==
    /\ pc = "fill_loop"
    /\ Top.i < 9
    /\ LET val == Top.candidates[Top.i] IN
       /\ heap' = Store(heap, solution, Top.r, Top.c, val)
       /\ pc' = IF isValidPlacement(Deref(heap', solution), Top.r, Top.c, val) = "true"
                THEN "fill_enter" ELSE "fill_undo"
    /\ UNCHANGED <<stack, ret, solveVars, genVars, placeVars>>

\* line 82: the cell is reverted to 0 and the loop goes on
fillUndo ==
    /\ pc = "fill_undo"
    /\ heap' = Store(heap, solution, Top.r, Top.c, 0)
    /\ stack' = NextCandidate
    /\ pc' = "fill_loop"
    /\ UNCHANGED <<ret, solveVars, genVars, placeVars>>

\* line 84: all nine candidates failed, fill() returns false
fillFail ==
    /\ pc = "fill_loop"
    /\ Top.i = 9
    /\ stack' = Pop
    /\ ret' = FALSE
    /\ pc' = "fill_return"
    /\ UNCHANGED <<heap, solveVars, genVars, placeVars>>

\* line 81, after the recursive call: true is passed on, false reverts
fillReturn ==
    /\ pc = "fill_return"
    /\ stack # <<>>
    /\ IF ret
       THEN /\ stack' = Pop
            /\ pc' = "fill_return"
       ELSE /\ pc' = "fill_undo"
            /\ UNCHANGED stack
    /\ UNCHANGED <<heap, ret, solveVars, genVars, placeVars>>

\* lines 87-91: the outermost fill() has returned (its result is not
\* looked at), solution is cloned and the index array is built
generateClone ==
    /\ pc = "fill_return"
    /\ stack = <<>>
    /\ LET copy == cloneGrid(heap, solution) IN
       /\ puzzle' = copy.grid
       /\ heap' = copy.heap
    /\ indices' = [q \in 0..80 |-> q]
    /\ k' = 80
    /\ pc' = "shuffle"
    /\ UNCHANGED <<stack, ret, solveVars, rng, givens, solution, placeVars>>

\* lines 92-95: one iteration of the shuffle of indices (k is its counter i)
generateShuffle ==
    /\ pc = "shuffle"
    /\ k > 0
    /\ rng' = NextRand(rng)
    /\ indices' = Swap(indices, k, RandomBelow(rng', k + 1))
    /\ k' = k - 1
    /\ UNCHANGED <<heap, stack, ret, pc, solveVars, givens, solution, puzzle, placeVars>>

\* lines 97-99: the shuffle is over, the removal loop starts
generateKeep ==
    /\ pc = "shuffle"
    /\ k = 0
    /\ pc' = "remove"
    /\ UNCHANGED <<heap, stack, ret, k, solveVars, rng, givens, solution, puzzle, indices,
                   placeVars>>

\* lines 99-104: one iteration of the removal loop
generateRemove ==
    /\ pc = "remove"
    /\ k < toRemove(givens)
    /\ LET idx == indices[k] IN
       heap' = Store(heap, puzzle, idx \div 9, idx % 9, 0)
    /\ k' = k + 1
    /\ UNCHANGED <<stack, ret, pc, solveVars, rng, givens, solution, puzzle, indices,
                   placeVars>>

\* line 106
generateReturn ==
    /\ pc = "remove"
    /\ k >= toRemove(givens)
    /\ pc' = "generated"
    /\ UNCHANGED <<heap, stack, ret, k, solveVars, genVars, placeVars>>

GenNext ==
    \/ generateSudoku
    \/ fillEnter
    \/ fillPlace
    \/ fillUndo
    \/ fillFail
    \/ fillReturn
    \/ generateClone
    \/ generateShuffle
    \/ generateKeep
    \/ generateRemove
    \/ generateReturn

\* the code runs to completion: a step that can be taken is taken
GenSpec == GenInit /\ [][GenNext]_vars /\ WF_vars(GenNext)

Solution == Deref(heap, solution)
Puzzle   == Deref(heap, puzzle)

\* C5: the puzzle has exactly max(17, min(81, givens)) non-zero cells and each
\* of its cells is 0 or the cell of the solution
PuzzleHasClampedGivens ==
    pc = "generated" =>
        /\ 81 - NumEmpty(Puzzle) =
               (IF givens < 17 THEN 17 ELSE IF givens > 81 THEN 81 ELSE givens)
        /\ \A i \in 0..80 : Cell(Puzzle, i) = 0 \/ Cell(Puzzle, i) = Cell(Solution, i)

\* givens = 5 was asked for and 17 cells were kept
WitnessClampedLow ==
    pc = "generated" /\ givens = 5 /\ NumEmpty(Puzzle) = 64 /\ ~HasEmpty(Solution)

\* C6: the fill of the empty grid returns true with the grid full, generate
\* returns, and the solution is full and neither grid has a conflict
FillSucceeds ==
    /\ []((pc = "fill_return" /\ stack = <<>>) => (ret /\ ~HasEmpty(Solution)))
    /\ [](pc = "generated" =>
            /\ ~HasEmpty(Solution)
            /\ ~gridHasConflicts(Solution) /\ NoDuplicates(Solution)
            /\ ~gridHasConflicts(Puzzle) /\ NoDuplicates(Puzzle))
    /\ <>(pc = "generated")

\* the outermost fill() has returned true on a full grid without duplicates
WitnessFillReturned ==
    /\ pc = "fill_return" /\ stack = <<>> /\ ret
    /\ ~HasEmpty(Solution) /\ NoDuplicates(Solution)

====
